---- MODULE Spec2Model ----
(***************************************************************************)
(* A model of the circuit rewriting functions of topt_rewrites.           *)
(*                                                                         *)
(* A circuit is a record [n_qubits, n_bits, cmds]: cmds is the sequence   *)
(* Circuit.get_commands() returns, which is also the order in which       *)
(* `for cmd in circ` visits the commands.  A command is a record          *)
(* [type, op, name, args, angle, sym, paulis]: type is cmd.op.type, op is *)
(* cmd.op.op.type of a Conditional ("-" otherwise), name the circuit name *)
(* of a CircBox, args is cmd.args (units <<register, index>>), angle is   *)
(* op.params[0] of an Rz in units of 1/8 half-turn, sym says whether the  *)
(* parameter is symbolic, paulis is the Pauli string of a Pauli gadget.    *)
(*                                                                         *)
(* A call either returns or raises: its outcome is a record               *)
(* [kind, exc, msg, val] with kind "return" or "raise".                   *)
(***************************************************************************)
EXTENDS Integers, Sequences, FiniteSets, TLC

VARIABLES
    pc,               \* position of the script: "start", "loop", "done"
    fn,               \* the function the script called
    circ,             \* the circuit the function is called on
    internal_h_count, \* gadgetise_hadamards: local of the same name
    circ_prime,       \* gadgetise_hadamards: the circuit being built
    ancilla_index,    \* gadgetise_hadamards: local of the same name
    k,                \* gadgetise_hadamards: position of `for cmd in circ`
    ret,              \* the outcome of the call
    pbox,             \* synthesise_clifford: the PhasePolyBox argument
    input_pauli,      \* synthesise_clifford: the QubitPauliTensor argument
    q_operator_list,  \* synthesise_clifford: local of the same name
    prev,             \* outcome of the previous call of the script
    pauli_tensors     \* _get_updated_paulis: the list object it is given

vars == <<pc, fn, circ, internal_h_count, circ_prime, ancilla_index, k, ret,
          pbox, input_pauli, q_operator_list, prev, pauli_tensors>>

\* ------------------------------------------------------------------ bounds

\* Number of qubits of the circuits the functions are called on.
NQubits == 2

\* Largest number of commands of an input circuit.
MaxLen == 4

\* Largest number of commands of a circuit given to check_rz_angles.
MaxRzLen == 2

\* Largest Rz angle, in eighths of a half-turn (18 is 2.25 half-turns).
MaxAngle == 18

\* Largest number of terms of the phase polynomial of a PhasePolyBox.
MaxTerms == 2

\* Largest phase of a box given to check_phasepolybox, in eighths of a
\* half-turn.
MaxPhase == 4

\* Largest number of CX gates of the linear transformation of a box.
MaxCnots == 1

\* ----------------------------------------------------------------- helpers

Returned(v) == [kind |-> "return", exc |-> "", msg |-> "", val |-> v]

Raised(e, m) == [kind |-> "raise", exc |-> e, msg |-> m, val |-> 0]

NoOutcome == [kind |-> "none", exc |-> "", msg |-> "", val |-> 0]

RECURSIVE reversed(_)
reversed(s) == IF s = <<>> THEN <<>> ELSE Append(reversed(Tail(s)), Head(s))

SeqsUpTo(S, n) == UNION {[1..m -> S] : m \in 0..n}

\* --------------------------------------------------------------- circuits

Qubit(i) == <<"q", i>>

Cmd(t, a) == [type |-> t, op |-> "-", name |-> "", args |-> a,
              angle |-> 0, sym |-> FALSE, paulis |-> <<>>]

AllQubits(n) == [i \in 1..n |-> Qubit(i - 1)]

Circuit(n) == [n_qubits |-> n, n_bits |-> 0, cmds |-> <<>>]

\* An add_gate that leaves the circuit as it was.
add_gate_lost(c, cmd) == c

add_gate(c, cmd) == [c EXCEPT !.cmds = Append(@, cmd)]

\* Positions of the commands of the given type.
Positions(c, t) == {j \in 1..Len(c.cmds) : c.cmds[j].type = t}

n_gates_of_type(c, t) == Cardinality(Positions(c, t))

\* Circuit.ops_of_type: the operations of the given type, in command order.
ops_of_type(c, t) == SelectSeq(c.cmds, LAMBDA cmd : cmd.type = t)

\* FSWAP = CircBox(Circuit(2, name="FSWAP").CZ(0, 1).SWAP(0, 1))
FSWAP(a) == [Cmd("CircBox", a) EXCEPT !.name = "FSWAP"]

Measure(q, b) == Cmd("Measure", <<q, b>>)

\* circ.X(q, condition_bits=[b], condition_value=1): the command's args are
\* the condition bit followed by the qubit.
ConditionalX(q, b) == [Cmd("Conditional", <<b, q>>) EXCEPT !.op = "X"]

\* A gate set predicate that also lets X through.
HADAMARD_REPLACE_PREDICATE_with_X(c) ==
    \A j \in 1..Len(c.cmds) : c.cmds[j].type \in {"H", "PhasePolyBox", "X"}

\* GateSetPredicate({OpType.H, OpType.PhasePolyBox}).verify
HADAMARD_REPLACE_PREDICATE(c) ==
    \A j \in 1..Len(c.cmds) : c.cmds[j].type \in {"H", "PhasePolyBox"}

\* ------------------------------------------------------------ gadgetisation

RECURSIVE _count_hadamards(_)
_count_hadamards(commands) ==
    IF commands = <<>> THEN 0
    ELSE IF Head(commands).type = "H" THEN 1 + _count_hadamards(Tail(commands))
    ELSE IF Head(commands).type = "PhasePolyBox" THEN 0
    ELSE _count_hadamards(Tail(commands))

get_n_internal_hadamards(c) ==
    IF ~HADAMARD_REPLACE_PREDICATE(c)
    THEN Raised("ValueError",
                "Circuit must contain only OpType.H and OpType.PhasePolyBox OpTypes.")
    ELSE LET total_h_count == n_gates_of_type(c, "H")
             lhs_count == _count_hadamards(c.cmds)
             rhs_count == _count_hadamards(reversed(c.cmds))
         IN  Returned(total_h_count - (lhs_count + rhs_count))

\* A filter that keeps every conditional operation.
_is_conditional_pauli_x_any(operation) == operation.op = operation.op

_is_conditional_pauli_x(operation) == operation.op = "X"

get_n_conditional_paulis(c) ==
    LET conditional_ops == ops_of_type(c, "Conditional")
        conditional_xs == SelectSeq(conditional_ops, _is_conditional_pauli_x)
    IN  Len(conditional_xs)

z_ancillas(i) == <<"z_ancillas", i>>

ancilla_bits(i) == <<"bits", i>>

\* The circuit gadgetise_hadamards has built when it enters its loop:
\* Circuit(circ.n_qubits) with the two registers of the given size added,
\* an H on every ancilla and a barrier over the ancillas.
InitialCircPrime(c, size) ==
    [n_qubits |-> c.n_qubits + size,
     n_bits |-> size,
     cmds |-> [j \in 1..size |-> Cmd("H", <<z_ancillas(j - 1)>>)]
              \o <<Cmd("Barrier", [j \in 1..size |-> z_ancillas(j - 1)])>>]

\* The three commands that replace an H on qubit q.
Gadget(q, a, b) == <<FSWAP(<<q, a>>), Measure(a, b), ConditionalX(q, b)>>

\* The circuits the functions are called on: H and PhasePolyBox commands,
\* and an X that is in neither gate set.
InputCmds ==
    {Cmd("H", <<Qubit(i)>>) : i \in 0..(NQubits - 1)}
    \cup {Cmd("PhasePolyBox", AllQubits(NQubits))}
    \cup {Cmd("X", <<Qubit(0)>>)}

InputCircuits ==
    {[n_qubits |-> NQubits, n_bits |-> 0, cmds |-> s] : s \in SeqsUpTo(InputCmds, MaxLen)}

NoPBox == [n_qubits |-> 0, phase_polynomial |-> <<>>, linear_transformation |-> <<>>]

NoPauli == [string |-> <<>>, coeff |-> 0]

InitGadget ==
    /\ pc = "start"
    /\ fn = "-"
    /\ circ \in InputCircuits
    /\ internal_h_count = 0
    /\ circ_prime = Circuit(0)
    /\ ancilla_index = 0
    /\ k = 0
    /\ ret = NoOutcome
    /\ pbox = NoPBox
    /\ input_pauli = NoPauli
    /\ q_operator_list = <<>>
    /\ prev = NoOutcome
    /\ pauli_tensors = <<>>

\* The script calls get_n_internal_hadamards(circ).
CallGetNInternalHadamards ==
    /\ pc = "start"
    /\ fn' = "get_n_internal_hadamards"
    /\ ret' = get_n_internal_hadamards(circ)
    /\ pc' = "done"
    /\ UNCHANGED <<circ, internal_h_count, circ_prime, ancilla_index, k,
                   pbox, input_pauli, q_operator_list, prev, pauli_tensors>>

\* gadgetise_hadamards up to its loop: the count, the registers, the H and
\* the barrier on the ancillas.  A register cannot have a negative size.
GadgetiseEnter ==
    /\ pc = "start"
    /\ fn' = "gadgetise_hadamards"
    /\ LET n == get_n_internal_hadamards(circ) IN
       IF n.kind = "raise"
       THEN /\ ret' = n
            /\ pc' = "done"
            /\ UNCHANGED <<internal_h_count, circ_prime, ancilla_index, k>>
       ELSE IF n.val < 0
       THEN /\ internal_h_count' = n.val
            /\ ret' = Raised("TypeError", "add_q_register")
            /\ pc' = "done"
            /\ UNCHANGED <<circ_prime, ancilla_index, k>>
       ELSE /\ internal_h_count' = n.val
            /\ circ_prime' = InitialCircPrime(circ, n.val)
            /\ ancilla_index' = 0
            /\ k' = 1
            /\ pc' = "loop"
            /\ UNCHANGED ret
    /\ UNCHANGED <<circ, pbox, input_pauli, q_operator_list, prev, pauli_tensors>>

\* One iteration of `for cmd in circ`.  Indexing a register at or past its
\* size raises IndexError.
GadgetiseLoop ==
    /\ pc = "loop"
    /\ k <= Len(circ.cmds)
    /\ LET cmd == circ.cmds[k] IN
       IF cmd.type # "H"
       THEN /\ circ_prime' = add_gate(circ_prime, cmd)
            /\ k' = k + 1
            /\ UNCHANGED <<ancilla_index, ret, pc>>
       ELSE IF ancilla_index >= internal_h_count
       THEN /\ ret' = Raised("IndexError", "z_ancillas")
            /\ pc' = "done"
            /\ UNCHANGED <<circ_prime, ancilla_index, k>>
       ELSE /\ circ_prime' =
                [circ_prime EXCEPT !.cmds = @ \o
                    Gadget(cmd.args[1], z_ancillas(ancilla_index),
                           ancilla_bits(ancilla_index))]
            /\ ancilla_index' = ancilla_index + 1
            /\ k' = k + 1
            /\ UNCHANGED <<ret, pc>>
    /\ UNCHANGED <<fn, circ, internal_h_count, pbox, input_pauli, q_operator_list,
                   prev, pauli_tensors>>

\* return circ_prime
GadgetiseReturn ==
    /\ pc = "loop"
    /\ k > Len(circ.cmds)
    /\ ret' = Returned(circ_prime)
    /\ pc' = "done"
    /\ UNCHANGED <<fn, circ, internal_h_count, circ_prime, ancilla_index, k,
                   pbox, input_pauli, q_operator_list, prev, pauli_tensors>>

NextGadget ==
    \/ CallGetNInternalHadamards
    \/ GadgetiseEnter
    \/ GadgetiseLoop
    \/ GadgetiseReturn

SpecGadget == InitGadget /\ [][NextGadget]_vars

\* ------------------------------------------------------------ Rz angles

\* Angles are counted in eighths of a half-turn: a T gate is Rz(2), an S
\* gate Rz(4), and two half-turns are 16.

Rz(a, q) == [Cmd("Rz", <<q>>) EXCEPT !.angle = a]

\* An Rz, and an Rx, whose angle is a free symbol.
RzSymbolic == [Cmd("Rz", <<Qubit(0)>>) EXCEPT !.sym = TRUE]

RxSymbolic == [Cmd("Rx", <<Qubit(0)>>) EXCEPT !.sym = TRUE]

CX(c, t) == Cmd("CX", <<Qubit(c), Qubit(t)>>)

\* NoSymbolsPredicate().verify
NoSymbolsPredicate(c) == \A j \in 1..Len(c.cmds) : ~c.cmds[j].sym

\* Op.is_clifford of an Rz: its angle is a multiple of half a half-turn.
is_clifford(op) == op.angle % 4 = 0

abs(x) == IF x < 0 THEN -x ELSE x

\* A list of angles with 1.25 and 1.75 left out.
allowed_non_clifford_angles_short == {2, 6}

\* [0.25, 0.75, 1.25, 1.75]
allowed_non_clifford_angles == {2, 6, 10, 14}

RECURSIVE rz_op_loop(_)
\* `for op in rz_op_list`: False at the first angle that is not allowed.
rz_op_loop(rz_op_list) ==
    IF rz_op_list = <<>> THEN TRUE
    ELSE LET op == Head(rz_op_list) IN
         IF ~is_clifford(op) /\ (abs(op.angle) % 16) \notin allowed_non_clifford_angles
         THEN FALSE
         ELSE rz_op_loop(Tail(rz_op_list))

\* check_rz_angles with its two checks in the other order.
check_rz_angles_rz_first(c) ==
    IF n_gates_of_type(c, "Rz") = 0
    THEN Raised("ValueError", "Circuit does not contain any Rz gates.")
    ELSE IF ~NoSymbolsPredicate(c)
    THEN Raised("ValueError", "Circuit contains symbolic angles.")
    ELSE Returned(rz_op_loop(ops_of_type(c, "Rz")))

check_rz_angles(c) ==
    IF ~NoSymbolsPredicate(c)
    THEN Raised("ValueError", "Circuit contains symbolic angles.")
    ELSE IF n_gates_of_type(c, "Rz") = 0
    THEN Raised("ValueError", "Circuit does not contain any Rz gates.")
    ELSE Returned(rz_op_loop(ops_of_type(c, "Rz")))

RzCmds ==
    {Rz(a, Qubit(0)) : a \in (-MaxAngle)..MaxAngle} \cup {RzSymbolic, RxSymbolic, CX(0, 1)}

RzCircuits ==
    {[n_qubits |-> NQubits, n_bits |-> 0, cmds |-> s] : s \in SeqsUpTo(RzCmds, MaxRzLen)}

\* ------------------------------------------------------- phase polynomials

\* A PhasePolyBox over n qubits is [n_qubits, phase_polynomial,
\* linear_transformation]: the phase polynomial maps a parity (a tuple of n
\* booleans, not all false) to its phase, and the linear transformation,
\* applied after the phases, is kept as the CX circuit that implements it,
\* a sequence of <<control, target>>.

Parities(n) == [1..n -> BOOLEAN] \ {[j \in 1..n |-> FALSE]}

CXPairs(n) == {<<c, t>> \in (0..(n - 1)) \X (0..(n - 1)) : c # t}

PhasePolyBoxes(n, phases) ==
    {[n_qubits |-> n, phase_polynomial |-> pp, linear_transformation |-> l] :
        pp \in UNION {[D -> phases] :
                        D \in {E \in SUBSET Parities(n) : Cardinality(E) <= MaxTerms}},
        l \in SeqsUpTo(CXPairs(n), MaxCnots)}

RECURSIVE ParityValue(_)
ParityValue(parity) ==
    IF parity = <<>> THEN 0
    ELSE (IF Head(parity) THEN 1 ELSE 0) + 2 * ParityValue(Tail(parity))

RECURSIVE items_from(_, _)
items_from(pp, D) ==
    IF D = {} THEN <<>>
    ELSE LET m == CHOOSE p \in D : \A q \in D : ParityValue(p) <= ParityValue(q)
         IN  <<<<m, pp[m]>>>> \o items_from(pp, D \ {m})

\* phase_poly.items(): the (parity, phase) pairs in the order of the keys.
items(pp) == items_from(pp, DOMAIN pp)

RECURSIVE gadgets_circuit(_)
\* The circuit of a sequence of (parity, phase) pairs: each parity is
\* computed onto its last qubit by CX gates, rotated by an Rz of the phase,
\* and uncomputed.
gadgets_circuit(pairs) ==
    IF pairs = <<>> THEN <<>>
    ELSE LET parity == Head(pairs)[1]
             phase == Head(pairs)[2]
             on == {j \in 1..Len(parity) : parity[j]}
             target == CHOOSE j \in on : \A i \in on : i <= j
             ladder == SelectSeq([j \in 1..Len(parity) |-> j],
                                 LAMBDA j : j \in on /\ j # target)
             cxs == [j \in 1..Len(ladder) |-> CX(ladder[j] - 1, target - 1)]
         IN  cxs \o <<Rz(phase, Qubit(target - 1))>> \o reversed(cxs)
                 \o gadgets_circuit(Tail(pairs))

\* PhasePolyBox.get_circuit(): the phases, then the linear transformation.
get_circuit(ppb) ==
    [n_qubits |-> ppb.n_qubits,
     n_bits |-> 0,
     cmds |-> gadgets_circuit(items(ppb.phase_polynomial))
              \o [j \in 1..Len(ppb.linear_transformation) |->
                    CX(ppb.linear_transformation[j][1], ppb.linear_transformation[j][2])]]

check_phasepolybox(ppb) ==
    LET c == get_circuit(ppb) IN check_rz_angles(c)

\* ----------------------------------------------- the script on Rz circuits

InitRz ==
    /\ pc = "start"
    /\ fn = "-"
    /\ \/ circ \in RzCircuits /\ pbox = NoPBox
       \/ circ = Circuit(NQubits) /\ pbox \in PhasePolyBoxes(NQubits, 1..MaxPhase)
    /\ internal_h_count = 0
    /\ circ_prime = Circuit(0)
    /\ ancilla_index = 0
    /\ k = 0
    /\ ret = NoOutcome
    /\ input_pauli = NoPauli
    /\ q_operator_list = <<>>
    /\ prev = NoOutcome
    /\ pauli_tensors = <<>>

\* The script calls check_rz_angles(circ).
CallCheckRzAngles ==
    /\ pc = "start"
    /\ pbox.n_qubits = 0
    /\ fn' = "check_rz_angles"
    /\ ret' = check_rz_angles(circ)
    /\ pc' = "done"
    /\ UNCHANGED <<circ, internal_h_count, circ_prime, ancilla_index, k,
                   pbox, input_pauli, q_operator_list, prev, pauli_tensors>>

\* The script appends one Rz to a circuit check_rz_angles has accepted, and
\* is about to check the circuit again.
AppendRz ==
    /\ pc = "done"
    /\ fn = "check_rz_angles"
    /\ prev.kind = "none"
    /\ ret.kind = "return"
    /\ ret.val
    /\ \E a \in (-MaxAngle)..MaxAngle : circ' = add_gate(circ, Rz(a, Qubit(0)))
    /\ prev' = ret
    /\ ret' = NoOutcome
    /\ fn' = "-"
    /\ pc' = "start"
    /\ UNCHANGED <<internal_h_count, circ_prime, ancilla_index, k, pbox, input_pauli,
                   q_operator_list, pauli_tensors>>

\* The script calls check_phasepolybox(pbox).
CallCheckPhasePolyBox ==
    /\ pc = "start"
    /\ pbox.n_qubits # 0
    /\ fn' = "check_phasepolybox"
    /\ ret' = check_phasepolybox(pbox)
    /\ pc' = "done"
    /\ UNCHANGED <<circ, internal_h_count, circ_prime, ancilla_index, k,
                   pbox, input_pauli, q_operator_list, prev, pauli_tensors>>

NextRz ==
    \/ CallCheckRzAngles
    \/ AppendRz
    \/ CallCheckPhasePolyBox

SpecRz == InitRz /\ [][NextRz]_vars

\* ------------------------------------------------------ claims on Rz angles

\* The angle is a whole number of quarters of a half-turn.
IsQuarterMultiple(a) == \E m \in (-MaxAngle)..MaxAngle : a = 2 * m

\* The angle is a whole number of halves of a half-turn.
IsHalfMultiple(a) == \E m \in (-MaxAngle)..MaxAngle : a = 4 * m

RzAngles(c) == {c.cmds[j].angle : j \in Positions(c, "Rz")}

CheckRzDone == pc = "done" /\ fn = "check_rz_angles"

\* C6: on a circuit with no symbol and at least one Rz, check_rz_angles
\* returns True exactly when every Rz angle, positive or negative, is a
\* multiple of 1/4; an Rz with another angle appended to an accepted circuit
\* makes it rejected.
C6_AcceptsExactlyQuarterMultiples ==
    (CheckRzDone /\ NoSymbolsPredicate(circ) /\ Positions(circ, "Rz") # {}) =>
        /\ ret.kind = "return"
        /\ ret.val = (\A a \in RzAngles(circ) : IsQuarterMultiple(a))
        /\ (prev.kind = "return" /\ ~IsQuarterMultiple(circ.cmds[Len(circ.cmds)].angle))
              => ret.val = FALSE

\* A circuit with a negative angle and an angle above two half-turns was
\* accepted, and is rejected with an Rz of 1/8 appended.
C6_Witness ==
    /\ CheckRzDone
    /\ prev.kind = "return"
    /\ \E a \in RzAngles(circ) : a < 0 /\ IsQuarterMultiple(a) /\ ~IsHalfMultiple(a)
    /\ \E a \in RzAngles(circ) : a > 16 /\ IsQuarterMultiple(a) /\ ~IsHalfMultiple(a)
    /\ circ.cmds[Len(circ.cmds)].angle = 1
    /\ ret.kind = "return"
    /\ ret.val = FALSE

\* C7: check_rz_angles raises ValueError on a circuit with a symbolic angle,
\* and on a circuit with no Rz; a circuit with both reports the symbolic
\* angle.
C7_SymbolicThenNoRz ==
    CheckRzDone =>
        /\ ~NoSymbolsPredicate(circ) =>
              /\ ret.kind = "raise"
              /\ ret.exc = "ValueError"
              /\ ret.msg = "Circuit contains symbolic angles."
        /\ (NoSymbolsPredicate(circ) /\ Positions(circ, "Rz") = {}) =>
              /\ ret.kind = "raise"
              /\ ret.exc = "ValueError"
              /\ ret.msg = "Circuit does not contain any Rz gates."

\* A circuit with a symbolic Rx and no Rz has been checked.
C7_Witness ==
    /\ CheckRzDone
    /\ ~NoSymbolsPredicate(circ)
    /\ Positions(circ, "Rz") = {}
    /\ Len(circ.cmds) = 2
    /\ ret.kind = "raise"

\* C8: check_phasepolybox returns a boolean for every box, True exactly when
\* every Rz of the box's circuit has a Clifford angle, a multiple of 1/2.
C8_TrueExactlyWhenClifford ==
    (pc = "done" /\ fn = "check_phasepolybox") =>
        /\ ret.kind = "return"
        /\ ret.val = (\A a \in RzAngles(get_circuit(pbox)) : IsHalfMultiple(a))

\* ------------------------------------- the script on conditional circuits

Bit(i) == <<"c", i>>

\* A CircBox over both qubits, conditioned on a bit.
ConditionalCircBox(b) ==
    [Cmd("Conditional", <<b>> \o AllQubits(NQubits)) EXCEPT !.op = "CircBox"]

\* Circuit.add_barrier: a barrier over the given units.
add_barrier(c, units) == add_gate(c, Cmd("Barrier", units))

\* Command.qubits: the arguments of the command that are qubits.
qubits(cmd) == SelectSeq(cmd.args, LAMBDA u : u[1] \notin {"c", "bits"})

ConditionalCmds ==
    {ConditionalX(Qubit(i), Bit(0)) : i \in 0..(NQubits - 1)}
    \cup {ConditionalCircBox(Bit(0)),
          Cmd("X", <<Qubit(0)>>),
          Measure(Qubit(0), Bit(0)),
          Cmd("Barrier", <<Qubit(0)>>),
          Cmd("Barrier", <<Qubit(0), Bit(0)>>)}

ConditionalCircuits ==
    {[n_qubits |-> NQubits, n_bits |-> 1, cmds |-> s] :
        s \in SeqsUpTo(ConditionalCmds, MaxLen)}

InitConditional ==
    /\ pc = "start"
    /\ fn = "-"
    /\ circ \in ConditionalCircuits
    /\ internal_h_count = 0
    /\ circ_prime = Circuit(0)
    /\ ancilla_index = 0
    /\ k = 0
    /\ ret = NoOutcome
    /\ pbox = NoPBox
    /\ input_pauli = NoPauli
    /\ q_operator_list = <<>>
    /\ prev = NoOutcome
    /\ pauli_tensors = <<>>

\* The script calls get_n_conditional_paulis(circ).
CallGetNConditionalPaulis ==
    /\ pc = "start"
    /\ fn' = "get_n_conditional_paulis"
    /\ ret' = Returned(get_n_conditional_paulis(circ))
    /\ pc' = "done"
    /\ UNCHANGED <<circ, internal_h_count, circ_prime, ancilla_index, k,
                   pbox, input_pauli, q_operator_list, prev, pauli_tensors>>

\* initialise_registers: an empty circuit over the qubits and bits of circ.
initialise_registers(c) == [n_qubits |-> c.n_qubits, n_bits |-> c.n_bits, cmds |-> <<>>]

RECURSIVE reverse_loop(_, _)
\* `for cmd in reversed(circ.get_commands())`, over the commands left.
reverse_loop(new_circ, commands) ==
    IF commands = <<>> THEN new_circ
    ELSE LET cmd == Head(commands) IN
         IF cmd.type = "Barrier"
         THEN reverse_loop(add_barrier(new_circ, qubits(cmd)), Tail(commands))
         ELSE reverse_loop(add_gate(new_circ, cmd), Tail(commands))

reverse_circuit(c) == reverse_loop(initialise_registers(c), reversed(c.cmds))

RECURSIVE terminal_loop(_, _)
\* `for cmd in reversed(circ.get_commands())` of _get_terminal_pauli_x_args:
\* every conditional X met assigns x_pauli_bit and x_pauli_qubit, and the
\* loop runs to the end of the sequence.
terminal_loop(commands, found) ==
    IF commands = <<>> THEN found
    ELSE LET cmd == Head(commands) IN
         IF cmd.type = "Conditional" /\ cmd.op = "X"
         THEN terminal_loop(Tail(commands), <<cmd.args[1], cmd.args[2]>>)
         ELSE terminal_loop(Tail(commands), found)

_get_terminal_pauli_x_args(c) ==
    IF get_n_conditional_paulis(c) < 1
    THEN Raised("ValueError", "Circuit contains no conditional X gates.")
    ELSE Returned(terminal_loop(reversed(c.cmds), <<>>))

\* The script calls reverse_circuit(circ).
CallReverseCircuit ==
    /\ pc = "start"
    /\ fn' = "reverse_circuit"
    /\ ret' = Returned(reverse_circuit(circ))
    /\ pc' = "done"
    /\ UNCHANGED <<circ, internal_h_count, circ_prime, ancilla_index, k,
                   pbox, input_pauli, q_operator_list, prev, pauli_tensors>>

\* The script calls reverse_circuit on the circuit the first call returned.
CallReverseCircuitAgain ==
    /\ pc = "done"
    /\ fn = "reverse_circuit"
    /\ prev.kind = "none"
    /\ prev' = ret
    /\ ret' = Returned(reverse_circuit(ret.val))
    /\ UNCHANGED <<pc, fn, circ, internal_h_count, circ_prime, ancilla_index, k,
                   pbox, input_pauli, q_operator_list, pauli_tensors>>

\* The script calls _get_terminal_pauli_x_args(circ).
CallGetTerminalPauliXArgs ==
    /\ pc = "start"
    /\ fn' = "_get_terminal_pauli_x_args"
    /\ ret' = _get_terminal_pauli_x_args(circ)
    /\ pc' = "done"
    /\ UNCHANGED <<circ, internal_h_count, circ_prime, ancilla_index, k,
                   pbox, input_pauli, q_operator_list, prev, pauli_tensors>>

NextConditional ==
    \/ CallGetNConditionalPaulis
    \/ CallReverseCircuit
    \/ CallReverseCircuitAgain
    \/ CallGetTerminalPauliXArgs

SpecConditional == InitConditional /\ [][NextConditional]_vars

\* Positions of the Conditional commands whose conditioned operation is an X.
ConditionalXPositions(c) ==
    {j \in Positions(c, "Conditional") : c.cmds[j].op = "X"}

\* C9: get_n_conditional_paulis returns the number of Conditional commands
\* whose conditioned operation is an X; other conditionals and unconditional
\* X gates are not counted, and a circuit with no conditional X gives 0.
C9_CountsConditionalXOnly ==
    (pc = "done" /\ fn = "get_n_conditional_paulis") =>
        /\ ret.kind = "return"
        /\ ret.val = Cardinality(ConditionalXPositions(circ))
        /\ ret.val <= Len(circ.cmds) - Cardinality(Positions(circ, "X"))
                        - Cardinality({j \in Positions(circ, "Conditional") :
                                          circ.cmds[j].op = "CircBox"})
        /\ ConditionalXPositions(circ) = {} => ret.val = 0

\* A conditional CircBox, an X and two conditional X have been counted as two.
C9_Witness ==
    /\ pc = "done"
    /\ fn = "get_n_conditional_paulis"
    /\ Positions(circ, "X") # {}
    /\ \E j \in Positions(circ, "Conditional") : circ.cmds[j].op = "CircBox"
    /\ Cardinality(ConditionalXPositions(circ)) = 2
    /\ ret.val = 2

\* The command that reverse_circuit is to add for cmd: a barrier over the
\* qubits of a barrier, the command itself otherwise.
ReAdded(cmd) == IF cmd.type = "Barrier" THEN Cmd("Barrier", qubits(cmd)) ELSE cmd

\* C14: reverse_circuit returns a circuit with the qubits and bits of its
\* input and the input's commands in reversed order, a barrier as a barrier
\* on the same qubits and every other command as it was; reversing the
\* result again gives back the original command sequence.
C14_ReversedAndBack ==
    (pc = "done" /\ fn = "reverse_circuit") =>
        /\ ret.kind = "return"
        /\ ret.val.n_qubits = circ.n_qubits
        /\ ret.val.n_bits = circ.n_bits
        /\ Len(ret.val.cmds) = Len(circ.cmds)
        /\ prev.kind = "none" =>
              \A j \in 1..Len(circ.cmds) :
                  ret.val.cmds[j] = ReAdded(circ.cmds[Len(circ.cmds) + 1 - j])
        /\ prev.kind = "return" => ret.val.cmds = circ.cmds

\* C15: _get_terminal_pauli_x_args returns the bit and the qubit of the last
\* conditional X in command order, and raises ValueError when the circuit has
\* no conditional X.
C15_ArgsOfLastConditionalX ==
    (pc = "done" /\ fn = "_get_terminal_pauli_x_args") =>
        IF ConditionalXPositions(circ) = {}
        THEN /\ ret.kind = "raise"
             /\ ret.exc = "ValueError"
        ELSE LET last == CHOOSE j \in ConditionalXPositions(circ) :
                            \A i \in ConditionalXPositions(circ) : i <= j
             IN  /\ ret.kind = "return"
                 /\ ret.val = <<circ.cmds[last].args[1], circ.cmds[last].args[2]>>

\* ---------------------------------------------------- Clifford synthesis

\* A QubitPauliTensor is [string, coeff]: one of I, X, Y, Z per qubit and a
\* coefficient.  The tensors of a phase polynomial carry the phase, in
\* eighths of a half-turn, as their coefficient.

QubitPauliTensor(string, coeff) == [string |-> string, coeff |-> coeff]

PauliStrings(n) == [1..n -> {"I", "X", "Y", "Z"}]

XBit(p) == p \in {"X", "Y"}

ZBit(p) == p \in {"Z", "Y"}

PauliOf(x, z) == IF x THEN (IF z THEN "Y" ELSE "X") ELSE (IF z THEN "Z" ELSE "I")

\* PAULI_DICT
PAULI_DICT(p) == IF p = "I" THEN "noop" ELSE p

pauli_tensor_to_circuit(pauli_tensor) ==
    [n_qubits |-> Len(pauli_tensor.string),
     n_bits |-> 0,
     cmds |-> [j \in 1..Len(pauli_tensor.string) |->
                 Cmd(PAULI_DICT(pauli_tensor.string[j]), <<Qubit(j - 1)>>)]]

\* The tableau of a CX circuit is kept as the circuit.
_get_reversible_tableau(box) == box.linear_transformation

\* The tensor conjugated by one CX: X on the control spreads to the target,
\* Z on the target spreads to the control, and the sign flips for the
\* products that anticommute on the way.
conjugate_by_cx(t, cx) ==
    LET c == cx[1] + 1
        g == cx[2] + 1
        xc == XBit(t.string[c])
        zc == ZBit(t.string[c])
        xg == XBit(t.string[g])
        zg == ZBit(t.string[g])
        flip == xc /\ zg /\ (xg = zc)
    IN  [string |-> [t.string EXCEPT ![c] = PauliOf(xc, zc # zg),
                                     ![g] = PauliOf(xg # xc, zg)],
         coeff |-> IF flip THEN -t.coeff ELSE t.coeff]

RECURSIVE get_row_product(_, _)
\* UnitaryTableau.get_row_product: the tensor conjugated by the circuit.
get_row_product(tableau, t) ==
    IF tableau = <<>> THEN t
    ELSE get_row_product(Tail(tableau), conjugate_by_cx(t, Head(tableau)))

get_pauli_conjugate(box, pauli) ==
    LET l_tableau == _get_reversible_tableau(box)
    IN  get_row_product(l_tableau, pauli)

\* QubitPauliTensor.commutes_with: the strings differ, on qubits where
\* neither is I, an even number of times.
commutes_with(a, b) ==
    Cardinality({j \in 1..Len(a.string) :
        a.string[j] # "I" /\ b.string[j] # "I" /\ a.string[j] # b.string[j]}) % 2 = 0

parity_to_pauli_list(parity) ==
    [count \in 1..Len(parity) |-> IF parity[count] THEN "Z" ELSE "I"]

_parities_to_pauli_tensors(box) ==
    LET phase_poly == items(box.phase_polynomial)
    IN  [j \in 1..Len(phase_poly) |->
            QubitPauliTensor(parity_to_pauli_list(phase_poly[j][1]), phase_poly[j][2])]

RECURSIVE _get_updated_paulis(_, _)
\* clifford.py: the tensors that do not commute with new_pauli, negated.
_get_updated_paulis(tensors, new_pauli) ==
    IF tensors = <<>> THEN <<>>
    ELSE LET pauli_op == Head(tensors)
             rest == _get_updated_paulis(Tail(tensors), new_pauli)
         IN  IF ~commutes_with(pauli_op, new_pauli)
             THEN <<QubitPauliTensor(pauli_op.string, pauli_op.coeff * (-1))>> \o rest
             ELSE rest

RECURSIVE parity_before(_, _)
\* The parity that a CX circuit turns into the given parity: each CX adds
\* the target's entry to the control's.
parity_before(parity, cxs) ==
    IF cxs = <<>> THEN parity
    ELSE LET c == Head(cxs)[1] + 1
             g == Head(cxs)[2] + 1
         IN  parity_before([parity EXCEPT ![c] = (parity[c] # parity[g])], Tail(cxs))

\* The box of the dagger of the box's circuit: the inverse linear
\* transformation, and every phase negated (modulo two half-turns) on the
\* parity as it reads before that transformation.
_get_daggered_phasepolybox(box) ==
    LET pp == box.phase_polynomial
        l == box.linear_transformation
        moved == {parity_before(par, l) : par \in DOMAIN pp}
    IN  [n_qubits |-> box.n_qubits,
         phase_polynomial |->
            [par \in moved |->
                (16 - pp[CHOOSE o \in DOMAIN pp : parity_before(o, l) = par]) % 16],
         linear_transformation |-> reversed(l)]

\* The circuit of a PauliExpCommutingSetBox over the (paulis, angle) pairs of
\* the tensors: one Pauli gadget per tensor.
_get_phase_gadget_circuit(tensors) ==
    LET n == IF tensors = <<>> THEN 0 ELSE Len(tensors[1].string)
    IN  [n_qubits |-> n,
         n_bits |-> 0,
         cmds |-> [j \in 1..Len(tensors) |->
                     [Cmd("PauliExpBox", AllQubits(n))
                        EXCEPT !.paulis = tensors[j].string,
                               !.angle = tensors[j].coeff]]]

\* The list Q = S' + S-dagger that synthesise_clifford gives to
\* _get_phase_gadget_circuit.
synthesise_clifford_q(box, pauli) ==
    LET new_pauli == get_pauli_conjugate(box, pauli)
        s_sequence == _parities_to_pauli_tensors(box)
        s_prime_sequence == _get_updated_paulis(s_sequence, new_pauli)
        u_dg_box == _get_daggered_phasepolybox(box)
        s_dg_sequence == _parities_to_pauli_tensors(u_dg_box)
    IN  s_prime_sequence \o s_dg_sequence

synthesise_clifford(box, pauli) ==
    LET new_pauli == get_pauli_conjugate(box, pauli)
        result_circ == pauli_tensor_to_circuit(new_pauli)
        q_operator_circ == _get_phase_gadget_circuit(synthesise_clifford_q(box, pauli))
    IN  [result_circ EXCEPT !.cmds = @ \o q_operator_circ.cmds]

\* The phases of a box of T gates and their odd multiples: 1/4, 3/4, 5/4, 7/4.
OddQuarterPhases == {2, 6, 10, 14}

InitClifford ==
    /\ pc = "start"
    /\ fn = "-"
    /\ circ = Circuit(0)
    /\ internal_h_count = 0
    /\ circ_prime = Circuit(0)
    /\ ancilla_index = 0
    /\ k = 0
    /\ ret = NoOutcome
    /\ pbox \in {b \in PhasePolyBoxes(NQubits, OddQuarterPhases) :
                    DOMAIN b.phase_polynomial # {}}
    /\ input_pauli \in {QubitPauliTensor(str, 1) : str \in PauliStrings(NQubits)}
    /\ q_operator_list = <<>>
    /\ prev = NoOutcome
    /\ pauli_tensors = <<>>

\* The script calls synthesise_clifford(pbox, input_pauli).
CallSynthesiseClifford ==
    /\ pc = "start"
    /\ fn' = "synthesise_clifford"
    /\ q_operator_list' = synthesise_clifford_q(pbox, input_pauli)
    /\ ret' = Returned(synthesise_clifford(pbox, input_pauli))
    /\ pc' = "done"
    /\ UNCHANGED <<circ, internal_h_count, circ_prime, ancilla_index, k,
                   pbox, input_pauli, prev, pauli_tensors>>

RECURSIVE _get_updated_paulis_in_place(_, _)
\* main.py: the list after the loop `pauli_op.coeff *= 2` over the tensors
\* that do not commute with new_pauli. The function returns the list object
\* it was given.
_get_updated_paulis_in_place(tensors, new_pauli) ==
    IF tensors = <<>> THEN <<>>
    ELSE LET pauli_op == Head(tensors)
             rest == _get_updated_paulis_in_place(Tail(tensors), new_pauli)
         IN  IF ~commutes_with(pauli_op, new_pauli)
             THEN <<[pauli_op EXCEPT !.coeff = @ * 2]>> \o rest
             ELSE <<pauli_op>> \o rest

\* The script builds pauli_tensors = _parities_to_pauli_tensors(pbox) and
\* calls the clifford.py _get_updated_paulis on it.
CallGetUpdatedPaulis ==
    /\ pc = "start"
    /\ fn' = "clifford._get_updated_paulis"
    /\ pauli_tensors' = _parities_to_pauli_tensors(pbox)
    /\ ret' = Returned(_get_updated_paulis(pauli_tensors',
                                           get_pauli_conjugate(pbox, input_pauli)))
    /\ pc' = "done"
    /\ UNCHANGED <<circ, internal_h_count, circ_prime, ancilla_index, k,
                   pbox, input_pauli, q_operator_list, prev>>

\* The script calls the clifford.py _get_updated_paulis again, with the same
\* list and the same new_pauli.
CallGetUpdatedPaulisAgain ==
    /\ pc = "done"
    /\ fn = "clifford._get_updated_paulis"
    /\ prev.kind = "none"
    /\ prev' = ret
    /\ ret' = Returned(_get_updated_paulis(pauli_tensors,
                                           get_pauli_conjugate(pbox, input_pauli)))
    /\ UNCHANGED <<pc, fn, circ, internal_h_count, circ_prime, ancilla_index, k,
                   pbox, input_pauli, q_operator_list, pauli_tensors>>

\* _get_circuit_fragments: the script builds pauli_tensors =
\* _parities_to_pauli_tensors(pbox) and calls the main.py _get_updated_paulis
\* on it; the result is the list as it stands when the call returns.
CallGetUpdatedPaulisInPlace ==
    /\ pc = "start"
    /\ fn' = "main._get_updated_paulis"
    /\ pauli_tensors' = _get_updated_paulis_in_place(
                            _parities_to_pauli_tensors(pbox),
                            get_pauli_conjugate(pbox, input_pauli))
    /\ ret' = Returned(pauli_tensors')
    /\ pc' = "done"
    /\ UNCHANGED <<circ, internal_h_count, circ_prime, ancilla_index, k,
                   pbox, input_pauli, q_operator_list, prev>>

\* The script calls the main.py _get_updated_paulis again, with the same
\* list object and the same new_pauli.
CallGetUpdatedPaulisInPlaceAgain ==
    /\ pc = "done"
    /\ fn = "main._get_updated_paulis"
    /\ prev.kind = "none"
    /\ prev' = ret
    /\ pauli_tensors' = _get_updated_paulis_in_place(
                            pauli_tensors,
                            get_pauli_conjugate(pbox, input_pauli))
    /\ ret' = Returned(pauli_tensors')
    /\ UNCHANGED <<pc, fn, circ, internal_h_count, circ_prime, ancilla_index, k,
                   pbox, input_pauli, q_operator_list>>

NextClifford ==
    \/ CallSynthesiseClifford
    \/ CallGetUpdatedPaulis
    \/ CallGetUpdatedPaulisAgain
    \/ CallGetUpdatedPaulisInPlace
    \/ CallGetUpdatedPaulisInPlaceAgain

SpecClifford == InitClifford /\ [][NextClifford]_vars

RECURSIVE TotalAngle(_, _)
\* The sum of the coefficients of the tensors with the given string.
TotalAngle(tensors, string) ==
    IF tensors = <<>> THEN 0
    ELSE (IF Head(tensors).string = string THEN Head(tensors).coeff ELSE 0)
            + TotalAngle(Tail(tensors), string)

\* C10: for a box whose phases are odd multiples of 1/4 and any input Pauli
\* tensor, the total angle of every Pauli string of the list Q that
\* synthesise_clifford builds is a multiple of 1/2.
C10_QAnglesAreClifford ==
    (pc = "done" /\ fn = "synthesise_clifford") =>
        \A j \in 1..Len(q_operator_list) :
            TotalAngle(q_operator_list, q_operator_list[j].string) % 4 = 0

\* ------------------------------------------------- claims on gadgetisation

\* Number of H commands strictly between the first and the last
\* PhasePolyBox command.
HBetweenBoxes(c) ==
    Cardinality({j \in Positions(c, "H") :
        \E a, b \in Positions(c, "PhasePolyBox") : a < j /\ j < b})

GadgetiseDone == pc = "done" /\ fn = "gadgetise_hadamards"

\* C1: for every circuit of H and PhasePolyBox commands, gadgetise_hadamards
\* gives a circuit whose number of conditional X gates is
\* get_n_internal_hadamards of the input.
C1_ConditionalPaulisEqualInternalHadamards ==
    (GadgetiseDone /\ HADAMARD_REPLACE_PREDICATE(circ)) =>
        /\ ret.kind = "return"
        /\ get_n_internal_hadamards(circ).kind = "return"
        /\ get_n_conditional_paulis(ret.val) = get_n_internal_hadamards(circ).val

\* C2: for every circuit of H and PhasePolyBox commands, the circuit
\* gadgetise_hadamards returns has n_qubits + get_n_internal_hadamards qubits
\* and get_n_internal_hadamards bits.
C2_QubitAndBitCounts ==
    (GadgetiseDone /\ HADAMARD_REPLACE_PREDICATE(circ)) =>
        /\ ret.kind = "return"
        /\ ret.val.n_qubits = circ.n_qubits + get_n_internal_hadamards(circ).val
        /\ ret.val.n_bits = get_n_internal_hadamards(circ).val

\* The commands of the returned circuit after the H and the barrier on the
\* ancillas.
Body(out) ==
    LET first == CHOOSE j \in 1..Len(out.cmds) : out.cmds[j].type = "Barrier"
    IN  SubSeq(out.cmds, first + 1, Len(out.cmds))

\* Position in the body of the first command that stands for the input
\* command at position j: every H before it has become three commands.
BodyPosition(c, j) == j + 2 * Cardinality({h \in Positions(c, "H") : h < j})

\* C3: for every circuit of H and PhasePolyBox commands, gadgetise_hadamards
\* returns a circuit in which every H of the input on qubit q stands replaced,
\* at its position, by FSWAP(q, a), Measure(a -> b), X(q) conditioned on b,
\* with an ancilla a and a bit b no other gadget uses, and no H is left on a
\* qubit of the input.
C3_EveryHadamardReplaced ==
    (GadgetiseDone /\ HADAMARD_REPLACE_PREDICATE(circ)) =>
        /\ ret.kind = "return"
        /\ LET body == Body(ret.val) IN
           /\ \A j \in Positions(circ, "H") :
                LET p == BodyPosition(circ, j)
                    q == circ.cmds[j].args[1]
                IN  /\ p + 2 <= Len(body)
                    /\ \E a \in 0..(ret.val.n_qubits - 1) :
                          /\ body[p] = FSWAP(<<q, z_ancillas(a)>>)
                          /\ body[p + 1] = Measure(z_ancillas(a), ancilla_bits(a))
                          /\ body[p + 2] = ConditionalX(q, ancilla_bits(a))
                          /\ \A i \in Positions(circ, "H") \ {j} :
                                body[BodyPosition(circ, i)].args[2] # z_ancillas(a)
           /\ \A j \in 1..Len(ret.val.cmds) :
                ret.val.cmds[j].type = "H" => ret.val.cmds[j].args[1][1] # "q"

\* C4: for every circuit of H and PhasePolyBox commands,
\* get_n_internal_hadamards returns the number of H commands strictly between
\* the first and the last PhasePolyBox command.
C4_CountsHadamardsBetweenBoxes ==
    (pc = "done" /\ fn = "get_n_internal_hadamards"
        /\ HADAMARD_REPLACE_PREDICATE(circ)) =>
        ret = Returned(HBetweenBoxes(circ))

HasForeignCommand(c) ==
    \E j \in 1..Len(c.cmds) :
        c.cmds[j].type # "H" /\ c.cmds[j].type # "PhasePolyBox"

\* C5: on a circuit with a command that is neither H nor PhasePolyBox,
\* get_n_internal_hadamards raises ValueError, and so does
\* gadgetise_hadamards, which has then built and returned no circuit.
C5_ForeignCommandRaisesValueError ==
    (pc = "done" /\ HasForeignCommand(circ)) =>
        /\ ret.kind = "raise"
        /\ ret.exc = "ValueError"
        /\ ret.msg = "Circuit must contain only OpType.H and OpType.PhasePolyBox OpTypes."
        /\ internal_h_count = 0
        /\ circ_prime = Circuit(0)

\* An X follows two H and a box; both functions have been called and raised.
C5_Witness ==
    /\ GadgetiseDone
    /\ HasForeignCommand(circ)
    /\ Positions(circ, "H") # {}
    /\ Positions(circ, "PhasePolyBox") # {}
    /\ ret.kind = "raise"

\* Number of H among the commands the loop has gone past.
HadamardsProcessed == Cardinality({j \in Positions(circ, "H") : j < k})

\* C11: at every step of the loop of gadgetise_hadamards, ancilla_index is at
\* most the number of H already processed, and where the step indexes an
\* ancilla (the command is an H) ancilla_index is below the size of
\* z_ancillas, which is internal_h_count.
C11_AncillaIndexInRange ==
    (fn = "gadgetise_hadamards" /\ pc = "loop") =>
        /\ ancilla_index <= HadamardsProcessed
        /\ (k <= Len(circ.cmds) /\ circ.cmds[k].type = "H")
              => ancilla_index < internal_h_count

\* The units of the circuit: its qubits, and its bits.
Units(c) ==
    {Qubit(i) : i \in 0..(c.n_qubits - 1)} \cup {<<"c", i>> : i \in 0..(c.n_bits - 1)}

\* The command acts on units of the circuit c and on no other.
ActsWithin(cmd, c) ==
    /\ cmd.args # <<>>
    /\ \A j \in 1..Len(cmd.args) : cmd.args[j] \in Units(c)

\* The commands of the sequence that are not an H.
NonHadamards(cmds) == SelectSeq(cmds, LAMBDA cmd : cmd.type # "H")

\* What gadgetise_hadamards has built holds, on the units of the input, the
\* non-H commands the loop has gone past, in their order; a returned circuit
\* is the one built.
CarriedOver ==
    fn = "gadgetise_hadamards" =>
        /\ SelectSeq(NonHadamards(circ_prime.cmds), LAMBDA cmd : ActsWithin(cmd, circ))
              = NonHadamards(SubSeq(circ.cmds, 1, k - 1))
        /\ (pc = "done" /\ ret.kind = "return") =>
              /\ ret.val = circ_prime
              /\ k = Len(circ.cmds) + 1

C13_CountIsNotNegative ==
    (pc = "done" /\ fn = "get_n_internal_hadamards"
        /\ HADAMARD_REPLACE_PREDICATE(circ)) =>
        /\ ret.kind = "return"
        /\ 0 <= ret.val
        /\ ret.val <= Cardinality(Positions(circ, "H"))

\* C16: _get_updated_paulis, in its clifford.py and in its main.py version,
\* leaves the list it receives and the coefficient of every tensor of that
\* list as they were, and a second call with the same arguments returns what
\* the first call returned.
C16_UpdatedPaulisIsStateless ==
    (pc = "done" /\ fn \in {"clifford._get_updated_paulis", "main._get_updated_paulis"}) =>
        /\ pauli_tensors = _parities_to_pauli_tensors(pbox)
        /\ prev.kind = "return" => ret = prev

====
